---- MODULE Spec2Model ----
(***************************************************************************)
(* Model of core/worksourcegroup.py (WorkSourceGroup): the child tree of   *)
(* work sources (add_work_source / remove_work_source), the start / stop   *)
(* cascades, the quota replenishment (_distribute_mhashes) and the fetch   *)
(* dispatcher (_start_fetcher / start_fetchers).                           *)
(*                                                                         *)
(* Work sources are numbered: 1..NumGroups are WorkSourceGroup instances,  *)
(* the next NumLeaves numbers are leaf work sources.  None (0) is Python's *)
(* None.  Quota amounts (mhashes) are fixed-point integers: MHashUnit      *)
(* quanta stand for the float 2**32 / 1000000.                             *)
(***************************************************************************)
EXTENDS Integers, Sequences, FiniteSets, TLC

NumGroups == 2
NumLeaves == 2

\* Leaves that the tree / lifecycle and the replenishment specifications use.
NumTreeLeaves == 1

\* Operations called in one run of the tree / lifecycle specification.
MaxOps == 4

\* Replenishment ticks in one run of the replenishment specification.
MaxTicks == 2

\* Settings and clock steps are drawn from 0..MaxPriority and 0..MaxElapsed.
MaxPriority == 2
MaxElapsed == 2

\* start_fetchers is asked for up to MaxRequest fetchers and jobs.
MaxRequest == 2

\* Threads calling into the tree at the same time.
NumThreads == 2

\* One reference unit of quota, 2**32 / 1000000. mhashes, in fixed-point quanta
\* (a multiple of every total priority the model can form, so that the
\* proportional shares of whole units are exact).
MHashUnit == 2520

\* settings.distribution_granularity: the default of apply_settings and 1.
DefaultGranularity == 16
Granularities == {1, DefaultGranularity}

None == 0
Groups == 1..NumGroups
Leaves == (NumGroups + 1)..(NumGroups + NumLeaves)
Nodes == Groups \cup Leaves
TreeLeaves == (NumGroups + 1)..(NumGroups + NumTreeLeaves)
TreeNodes == Groups \cup TreeLeaves
Threads == 1..NumThreads

\* _start_fetcher gives up after GiveUpIterations walks of the ring and ignores
\* the quota after ForceIterations walks.
GiveUpIterations == 150
ForceIterations == 100

\* Python's False as the first component of a start_fetchers result.
RetFalse == -1

VARIABLES
  parent,        \* BaseWorkSource.parent of every work source (None: no parent)
  children,      \* WorkSourceGroup.children of every group (a list)
  started,       \* Startable.started of every work source
  last_index,    \* WorkSourceGroup.last_index of every group
  last_time,     \* WorkSourceGroup.last_time of every group
  now,           \* time.time()
  running,       \* what every leaf's get_running_fetcher_count() returns
  answer,        \* what every leaf's start_fetchers(1, jobs) returns
  enabled,       \* settings.enabled of every work source
  priority,      \* settings.priority of every work source
  hashrate,      \* settings.hashrate of every work source
  granularity,   \* settings.distribution_granularity of every group
  pending,       \* mhashes_pending of every work source
  deferred,      \* mhashes_deferred of every work source
  tick,          \* the locals of the last _distribute_mhashes call
  fetch,         \* the last start_fetchers call on a group: arguments, result, log
  history,       \* the start_fetchers calls made so far, oldest first
  startCalls,    \* per work source: start() calls made by the last operation
  stopCalls,     \* per work source: stop() calls made by the last operation
  failed,        \* work sources whose start hook / stop hook raised in the last operation
  op,            \* the last operation: its name, receiver, argument and outcome
  nops,          \* operations called so far
  pc,            \* per thread: where the thread is in the call it is making
  frame,         \* per thread: the arguments and the locals of that call
  start_stop_lock,  \* Startable.start_stop_lock of every work source (an RLock)
  childlock      \* WorkSourceGroup.childlock of every group (an RLock)

vars == <<parent, children, started, last_index, last_time, now, running,
          answer, enabled, priority, hashrate, granularity, pending, deferred, tick,
          fetch, history, startCalls, stopCalls, failed, op, nops,
          pc, frame, start_stop_lock, childlock>>

Range(seq) == {seq[i] : i \in 1..Len(seq)}

\* The program state the operations below read and update, as one record.
\* exc is TRUE while an exception is propagating out of the current call.
State ==
  [parent |-> parent, children |-> children, started |-> started,
   last_index |-> last_index, last_time |-> last_time, now |-> now,
   enabled |-> enabled, priority |-> priority, hashrate |-> hashrate,
   granularity |-> granularity, pending |-> pending, deferred |-> deferred,
   tick |-> tick, log |-> fetch.log,
   startCalls |-> startCalls, stopCalls |-> stopCalls, failed |-> failed,
   exc |-> FALSE]

NoCalls == [n \in Nodes |-> 0]

\* A leaf's answer (False, 0).
NoAnswer == [result |-> RetFalse, gotjobs |-> 0]

NoFailures == [start |-> {}, stop |-> {}]

NoTick ==
  [g |-> None, timestep |-> 0, pool |-> 0, mhashes_remaining |-> 0,
   after_first |-> 0, total_priority |-> 0, carry |-> 0]

\* The log of one start_fetchers call: per leaf, the start_fetchers calls it
\* received, how many of them returned False, and the debits and refunds of
\* its pending quota; the _distribute_mhashes calls; the _start_fetcher calls;
\* the largest number of ring walks one _start_fetcher call made; the leaves
\* whose start_fetchers reported progress, in order.
NoLog ==
  [calls |-> NoCalls, falses |-> NoCalls, debits |-> NoCalls, refunds |-> NoCalls,
   ticks |-> 0, searches |-> 0, iters |-> 0, chosen |-> <<>>]

NoFetch ==
  [g |-> None, count |-> 0, jobs |-> 0, result |-> RetFalse, gotjobs |-> 0,
   log |-> NoLog]

\* The state at the start of an operation: the call logs are cleared.
Fresh ==
  [State EXCEPT !.startCalls = NoCalls, !.stopCalls = NoCalls,
                !.failed = NoFailures, !.log = NoLog]

\* An RLock nobody holds; owner is the thread holding the lock, count how many
\* times it has acquired it.
Unlocked == [owner |-> None, count |-> 0]

\* The locals of a thread that is not inside a call.
NoFrame ==
  [op |-> "none", g |-> None, worksource |-> None, w |-> None,
   old_parent |-> None, self |-> None, return |-> "done", raised |-> FALSE,
   count |-> 0, jobs |-> 0, children |-> <<>>, startindex |-> 0, index |-> 0,
   first |-> FALSE, found |-> FALSE, force |-> FALSE, forced |-> FALSE,
   iteration |-> 0, best |-> RetFalse, result |-> RetFalse, gotjobs |-> 0,
   started |-> 0, totaljobs |-> 0, crashed |-> FALSE]

threadVars == <<pc, frame, start_stop_lock, childlock>>

\* No thread is inside a call: the calls are made one at a time.
Sequential ==
  /\ pc = [t \in Threads |-> "idle"]
  /\ frame = [t \in Threads |-> NoFrame]
  /\ start_stop_lock = [n \in Nodes |-> Unlocked]
  /\ childlock = [g \in Groups |-> Unlocked]

----------------------------------------------------------------------------
(* Lifecycle: Startable.start / stop and the group's _reset, _start, _stop *)

\* WorkSourceGroup._reset
_reset(s, g) ==
  [s EXCEPT !.last_index[g] = 0, !.last_time[g] = s.now]

RECURSIVE start(_, _, _), StartChildren(_, _, _), StartChildrenAbort(_, _, _)
RECURSIVE stop(_, _, _), StopChildren(_, _, _)

\* The loop of _start without the try/except: the first failure ends the cascade.
StartChildrenAbort(s, seq, F) ==
  IF seq = <<>> THEN s
  ELSE LET r == start(s, Head(seq), F)
       IN IF r.exc THEN r ELSE StartChildrenAbort(r, Tail(seq), F)

\* The loop of _start: every child is started inside its own try/except.
StartChildren(s, seq, F) ==
  IF seq = <<>> THEN s
  ELSE LET r == start(s, Head(seq), F)
       IN StartChildren([r EXCEPT !.exc = FALSE], Tail(seq), F)

\* WorkSourceGroup._start: the inherited start hook, then the cascade.
\* F.start / F.stop are the work sources whose own start / stop hook raises.
_start(s, g, F) ==
  IF g \in F.start THEN [s EXCEPT !.exc = TRUE, !.failed.start = @ \cup {g}]
  ELSE StartChildren(s, s.children[g], F)

\* Startable.start of work source n.
start(s, n, F) ==
  LET s1 == [s EXCEPT !.startCalls[n] = @ + 1] IN
  IF s1.started[n] THEN s1
  ELSE LET r == IF n \in Groups THEN _start(_reset(s1, n), n, F)
                ELSE IF n \in F.start THEN [s1 EXCEPT !.exc = TRUE, !.failed.start = @ \cup {n}]
                ELSE s1
       IN IF r.exc THEN r ELSE [r EXCEPT !.started[n] = TRUE]

\* The loop of _stop: every child is stopped inside its own try/except.
StopChildren(s, seq, F) ==
  IF seq = <<>> THEN s
  ELSE LET r == stop(s, Head(seq), F)
       IN StopChildren([r EXCEPT !.exc = FALSE], Tail(seq), F)

\* WorkSourceGroup._stop: the cascade, then the inherited stop hook.
_stop(s, g, F) ==
  LET r == StopChildren(s, s.children[g], F) IN
  IF g \in F.stop THEN [r EXCEPT !.exc = TRUE, !.failed.stop = @ \cup {g}] ELSE r

\* Startable.stop of work source n.
stop(s, n, F) ==
  LET s1 == [s EXCEPT !.stopCalls[n] = @ + 1] IN
  IF ~s1.started[n] THEN s1
  ELSE LET r == IF n \in Groups THEN _stop(s1, n, F)
                ELSE IF n \in F.stop THEN [s1 EXCEPT !.exc = TRUE, !.failed.stop = @ \cup {n}]
                ELSE s1
       IN IF r.exc THEN r ELSE [r EXCEPT !.started[n] = FALSE]

----------------------------------------------------------------------------
(* Tree membership: add_work_source / remove_work_source                   *)

\* BaseWorkSource.get_parent / set_parent
get_parent(s, w) == s.parent[w]

set_parent(s, w, p) == [s EXCEPT !.parent[w] = p]

\* The walk of add_work_source: w = self; while w: ...; w = w.get_parent().
\* TRUE when worksource is met on the way from g to its root.
RECURSIVE WalkMeets(_, _, _)
WalkMeets(s, w, worksource) ==
  IF w = None THEN FALSE
  ELSE IF w = worksource THEN TRUE
  ELSE WalkMeets(s, get_parent(s, w), worksource)

\* list.remove(x): removes the first occurrence.
RECURSIVE ListRemove(_, _)
ListRemove(seq, x) ==
  IF seq = <<>> THEN <<>>
  ELSE IF Head(seq) = x THEN Tail(seq)
  ELSE <<Head(seq)>> \o ListRemove(Tail(seq), x)

RECURSIVE remove_work_source(_, _, _, _), remove_work_source_nocatch(_, _, _, _)

\* remove_work_source without the try/except around worksource.stop().
remove_work_source_nocatch(s, g, worksource, F) ==
  IF worksource \notin Range(s.children[g]) THEN s
  ELSE LET s1 == set_parent(s, worksource, None)
           s2 == IF s1.started[g] THEN stop(s1, worksource, F) ELSE s1
       IN IF s2.exc THEN s2
          ELSE remove_work_source_nocatch(
                 [s2 EXCEPT !.children[g] = ListRemove(@, worksource)], g, worksource, F)

\* WorkSourceGroup.remove_work_source
remove_work_source(s, g, worksource, F) ==
  IF worksource \notin Range(s.children[g]) THEN s
  ELSE LET s1 == set_parent(s, worksource, None)
           s2 == IF s1.started[g]
                 THEN [stop(s1, worksource, F) EXCEPT !.exc = FALSE]
                 ELSE s1
           s3 == [s2 EXCEPT !.children[g] = ListRemove(@, worksource)]
       IN remove_work_source(s3, g, worksource, F)

\* add_work_source with the removal from the old parent done before the walk.
add_work_source_early(s, g, worksource, F) ==
  LET old_parent == get_parent(s, worksource)
      s1 == IF old_parent # None
            THEN remove_work_source(s, old_parent, worksource, F) ELSE s
  IN IF WalkMeets(s1, g, worksource) THEN [s1 EXCEPT !.exc = TRUE]
     ELSE LET s2 == set_parent(s1, worksource, g)
              s3 == IF s2.started[g]
                    THEN [start(s2, worksource, F) EXCEPT !.exc = FALSE] ELSE s2
          IN [s3 EXCEPT !.children[g] = Append(@, worksource)]

\* add_work_source that leaves the parent link of the child alone.
add_work_source_nolink(s, g, worksource, F) ==
  IF WalkMeets(s, g, worksource) THEN [s EXCEPT !.exc = TRUE]
  ELSE LET old_parent == get_parent(s, worksource)
           s1 == IF old_parent # None
                 THEN remove_work_source(s, old_parent, worksource, F) ELSE s
       IN IF worksource \in Range(s1.children[g]) THEN s1
          ELSE LET s3 == IF s1.started[g]
                         THEN [start(s1, worksource, F) EXCEPT !.exc = FALSE] ELSE s1
               IN [s3 EXCEPT !.children[g] = Append(@, worksource)]

\* add_work_source without the try/except around worksource.start().
add_work_source_nocatch(s, g, worksource, F) ==
  IF WalkMeets(s, g, worksource) THEN [s EXCEPT !.exc = TRUE]
  ELSE LET old_parent == get_parent(s, worksource)
           s1 == IF old_parent # None
                 THEN remove_work_source(s, old_parent, worksource, F) ELSE s
           s2 == set_parent(s1, worksource, g)
       IN IF worksource \in Range(s2.children[g]) THEN s2
          ELSE LET s3 == IF s2.started[g] THEN start(s2, worksource, F) ELSE s2
               IN IF s3.exc THEN s3
                  ELSE [s3 EXCEPT !.children[g] = Append(@, worksource)]

\* WorkSourceGroup.add_work_source
add_work_source(s, g, worksource, F) ==
  IF WalkMeets(s, g, worksource) THEN [s EXCEPT !.exc = TRUE]
  ELSE LET old_parent == get_parent(s, worksource)
           s1 == IF old_parent # None
                 THEN remove_work_source(s, old_parent, worksource, F) ELSE s
           s2 == set_parent(s1, worksource, g)
       IN IF worksource \in Range(s2.children[g]) THEN s2
          ELSE LET s3 == IF s2.started[g]
                         THEN [start(s2, worksource, F) EXCEPT !.exc = FALSE] ELSE s2
               IN [s3 EXCEPT !.children[g] = Append(@, worksource)]

----------------------------------------------------------------------------
(* Aggregator                                                              *)

\* WorkSourceGroup.get_running_fetcher_count; a leaf answers with its own counts.
RECURSIVE get_running_fetcher_count(_, _, _), SumCounts(_, _, _)
SumCounts(ch, run, seq) ==
  IF seq = <<>> THEN <<0, 0>>
  ELSE LET a == get_running_fetcher_count(ch, run, Head(seq))
           b == SumCounts(ch, run, Tail(seq))
       IN <<a[1] + b[1], a[2] + b[2]>>

get_running_fetcher_count(ch, run, n) ==
  IF n \in Leaves THEN run[n] ELSE SumCounts(ch, run, ch[n])

----------------------------------------------------------------------------
(* Quota distributor: _distribute_mhashes                                  *)

\* time.time(): the clock has advanced by env.dt since it was last read.
Clock(s, env) == [s EXCEPT !.now = @ + env.dt]

RECURSIVE FirstPass(_, _, _), FirstPassNoDebit(_, _, _), SecondPass(_, _, _)

\* The first loop of _distribute_mhashes with the pool left undebited.
FirstPassNoDebit(s, seq, timestep) ==
  IF seq = <<>> THEN s
  ELSE LET child == Head(seq) IN
       IF s.enabled[child]
       THEN LET mhashes == timestep * s.hashrate[child]
                carry == s.deferred[child] \div 10
            IN FirstPassNoDebit(
                 [s EXCEPT !.tick.total_priority = @ + s.priority[child],
                           !.pending[child] = @ + mhashes + carry,
                           !.tick.carry = @ + carry,
                           !.deferred[child] = (@ * 9) \div 10],
                 Tail(seq), timestep)
       ELSE FirstPassNoDebit(s, Tail(seq), timestep)

\* The first loop of _distribute_mhashes, over the children in seq: an enabled
\* child is credited timestep * hashrate plus a tenth of its deferred quota;
\* only the former is taken from the pool (tick.mhashes_remaining).
FirstPass(s, seq, timestep) ==
  IF seq = <<>> THEN s
  ELSE LET child == Head(seq) IN
       IF s.enabled[child]
       THEN LET mhashes == timestep * s.hashrate[child]
                carry == s.deferred[child] \div 10
            IN FirstPass(
                 [s EXCEPT !.tick.total_priority = @ + s.priority[child],
                           !.pending[child] = @ + mhashes + carry,
                           !.tick.carry = @ + carry,
                           !.tick.mhashes_remaining = @ - mhashes,
                           !.deferred[child] = (@ * 9) \div 10],
                 Tail(seq), timestep)
       ELSE FirstPass(s, Tail(seq), timestep)

\* The second loop: an enabled child is credited unit * priority.
SecondPass(s, seq, unit) ==
  IF seq = <<>> THEN s
  ELSE LET child == Head(seq) IN
       IF s.enabled[child]
       THEN LET mhashes == unit * s.priority[child]
            IN SecondPass([s EXCEPT !.pending[child] = @ + mhashes,
                                    !.tick.mhashes_remaining = @ - mhashes],
                          Tail(seq), unit)
       ELSE SecondPass(s, Tail(seq), unit)

\* WorkSourceGroup._distribute_mhashes
_distribute_mhashes(s, g, env) ==
  LET s0 == Clock(s, env)
      timestep == s0.now - s0.last_time[g]
      pool == MHashUnit * s0.granularity[g]
      s1 == [s0 EXCEPT !.last_time[g] = s0.now,
                       !.tick = [g |-> g, timestep |-> timestep, pool |-> pool,
                                 mhashes_remaining |-> pool, after_first |-> 0,
                                 total_priority |-> 0, carry |-> 0]]
      f == FirstPass(s1, s1.children[g], timestep)
      s2 == [f EXCEPT !.tick.after_first = f.tick.mhashes_remaining]
  IN IF s2.tick.mhashes_remaining > 0 /\ s2.tick.total_priority > 0
     THEN SecondPass(s2, s2.children[g],
                     s2.tick.mhashes_remaining \div s2.tick.total_priority)
     ELSE s2

----------------------------------------------------------------------------
(* Fetch dispatcher: _get_start_index, _start_fetcher, start_fetchers      *)

\* The is_group attribute: set on WorkSourceGroup, not set on a leaf.
is_group(n) == n \in Groups

\* BaseWorkSource.add_pending_mhashes; the log counts debits and refunds.
add_pending_mhashes(s, w, mhashes) ==
  IF mhashes < 0
  THEN [s EXCEPT !.pending[w] = @ + mhashes, !.log.debits[w] = @ + 1]
  ELSE [s EXCEPT !.pending[w] = @ + mhashes, !.log.refunds[w] = @ + 1]

\* start_fetchers(count, jobs) of a leaf: what the leaf answers, env.res[l], is
\* an input; a leaf that reports progress produces at most jobs units.
LeafStartFetchers(s, l, count, jobs, env) ==
  LET a == env.res[l] IN
  [s |-> [s EXCEPT !.log.calls[l] = @ + 1,
                   !.log.falses[l] = IF a.result = RetFalse THEN @ + 1 ELSE @,
                   !.log.chosen = IF a.result > 0 THEN Append(@, l) ELSE @],
   result |-> a.result,
   gotjobs |-> IF a.gotjobs > jobs THEN jobs ELSE a.gotjobs]

\* _get_start_index with the cursor left where it is.
_get_start_index_stuck(s, g) ==
  LET i == s.last_index[g]
      j == IF i >= Len(s.children[g]) THEN 0 ELSE i
  IN [s |-> [s EXCEPT !.last_index[g] = j], index |-> j]

\* WorkSourceGroup._get_start_index
_get_start_index(s, g) ==
  LET i == s.last_index[g] + 1
      j == IF i >= Len(s.children[g]) THEN 0 ELSE i
  IN [s |-> [s EXCEPT !.last_index[g] = j], index |-> j]

Max(a, b) == IF a >= b THEN a ELSE b

RECURSIVE start_fetchers(_, _, _, _, _), start_fetchers_unguarded(_, _, _, _, _)
RECURSIVE FetchLoop(_, _, _, _, _, _, _, _), _start_fetcher(_, _, _, _, _)
RECURSIVE FetchStep(_, _, _, _, _, _, _), Retry(_, _, _, _)
RECURSIVE Search(_, _, _, _, _, _, _), Passes(_, _, _, _, _, _, _)
RECURSIVE Pass(_, _, _, _, _, _), PassEnd(_, _, _, _), PassEndNoForce(_, _, _, _)
RECURSIVE Ring(_, _, _, _, _, _, _, _, _, _)
RECURSIVE RingAnswer(_, _, _, _, _, _, _, _, _, _)

\* The inner loop of _start_fetcher after the selected child worksource has
\* answered r (lines 187-193): the refund, the return on progress, best, and
\* the rest of the walk from index next.
RingAnswer(r, worksource, mhashes, ch, startindex, next, jobs, force, best, env) ==
  IF r.result # RetFalse
  THEN LET s2 == IF mhashes # 0
                 THEN add_pending_mhashes(r.s, worksource, mhashes)
                 ELSE r.s
       IN IF r.result > 0
          THEN [s |-> s2, ret |-> TRUE, result |-> r.result,
                gotjobs |-> r.gotjobs, found |-> TRUE]
          ELSE Ring(s2, ch, startindex, next, FALSE, jobs, force,
                    r.result, TRUE, env)
  ELSE Ring(r.s, ch, startindex, next, FALSE, jobs, force, best, TRUE, env)

\* The inner loop of _start_fetcher (lines 179-193): one walk of the ring ch
\* (the snapshot of the children) from startindex.  ret is TRUE when the walk
\* left _start_fetcher through "return result, gotjobs".
Ring(s, ch, startindex, index, first, jobs, force, best, found, env) ==
  IF index = startindex /\ ~first
  THEN [s |-> s, ret |-> FALSE, result |-> best, gotjobs |-> 0, found |-> found]
  ELSE LET worksource == ch[index + 1]
           mhashes == IF is_group(worksource) THEN 0 ELSE MHashUnit
           next == IF index + 1 >= Len(ch) THEN 0 ELSE index + 1
       IN IF force \/ s.pending[worksource] >= mhashes
          THEN RingAnswer(
                 start_fetchers(IF mhashes # 0
                                THEN add_pending_mhashes(s, worksource, -mhashes)
                                ELSE s,
                                worksource, 1, jobs, env),
                 worksource, mhashes, ch, startindex, next, jobs, force, best, env)
          ELSE Ring(s, ch, startindex, next, FALSE, jobs, force, best, found, env)

\* The locals of _start_fetcher when its outer loop is entered (lines 173-175).
Locals(s, force) ==
  [s |-> s, found |-> FALSE, best |-> RetFalse, iteration |-> 0, force |-> force,
   broke |-> FALSE, ret |-> FALSE, result |-> RetFalse, gotjobs |-> 0]

\* The end of a pass without the switch to force.
PassEndNoForce(L, w, g, env) ==
  IF w.ret
  THEN [L EXCEPT !.s = w.s, !.found = TRUE, !.ret = TRUE,
                 !.result = w.result, !.gotjobs = w.gotjobs]
  ELSE [L EXCEPT !.s = IF ~w.found
                       THEN [_distribute_mhashes(w.s, g, env)
                               EXCEPT !.log.ticks = @ + 1]
                       ELSE w.s,
                 !.found = w.found, !.best = w.result,
                 !.iteration = L.iteration + 1,
                 !.broke = L.iteration + 1 > GiveUpIterations]

\* The end of a pass of the outer loop, after the walk w (lines 189, 194-197):
\* the return from inside the walk, _distribute_mhashes when the walk found no
\* child, the iteration count, the give-up test and the switch to force.
PassEnd(L, w, g, env) ==
  IF w.ret
  THEN [L EXCEPT !.s = w.s, !.found = TRUE, !.ret = TRUE,
                 !.result = w.result, !.gotjobs = w.gotjobs]
  ELSE [L EXCEPT !.s = IF ~w.found
                       THEN [_distribute_mhashes(w.s, g, env)
                               EXCEPT !.log.ticks = @ + 1]
                       ELSE w.s,
                 !.found = w.found, !.best = w.result,
                 !.iteration = L.iteration + 1,
                 !.broke = L.iteration + 1 > GiveUpIterations,
                 !.force = L.force \/ L.iteration + 1 > ForceIterations]

\* One pass of the outer loop of _start_fetcher (lines 177-197).
Pass(L, g, ch, startindex, jobs, env) ==
  PassEnd(L,
          Ring([L.s EXCEPT !.log.iters = Max(@, L.iteration + 1)], ch, startindex,
               startindex, TRUE, jobs, L.force, L.best, FALSE, env),
          g, env)

\* Up to n consecutive passes of the outer loop "while not found"; the loop is
\* left when a walk found a child, returned, or hit the give-up test.  The
\* passes are run half by half.
Passes(L, n, g, ch, startindex, jobs, env) ==
  IF n = 0 \/ L.found \/ L.ret \/ L.broke THEN L
  ELSE IF n = 1 THEN Pass(L, g, ch, startindex, jobs, env)
  ELSE Passes(Passes(L, n \div 2, g, ch, startindex, jobs, env),
              n - (n \div 2), g, ch, startindex, jobs, env)

\* What _start_fetcher returns when its outer loop is left with the locals L:
\* "return result, gotjobs" from inside a walk, or "return best, 0".
SearchReturn(L) ==
  IF L.ret THEN [s |-> L.s, result |-> L.result, gotjobs |-> L.gotjobs]
  ELSE [s |-> L.s, result |-> L.best, gotjobs |-> 0]

\* The outer loop of _start_fetcher and its two exits: the give-up test lets
\* the loop make GiveUpIterations + 1 passes at most.
Search(s, g, ch, startindex, jobs, force, env) ==
  SearchReturn(Passes(Locals(s, force), GiveUpIterations + 1, g, ch, startindex,
                      jobs, env))

\* WorkSourceGroup._start_fetcher
_start_fetcher(s, g, jobs, force, env) ==
  LET children_ == s.children[g]
      i == _get_start_index(s, g)
  IN Search([i.s EXCEPT !.log.searches = @ + 1], g, children_, i.index, jobs,
            force, env)

\* Line 213 of start_fetchers: a search r1 without progress is followed by a
\* forced search.
Retry(r1, g, jobs, env) ==
  IF r1.result <= 0 THEN _start_fetcher(r1.s, g, jobs, TRUE, env) ELSE r1

\* Lines 214-216 of start_fetchers, r2 being the result of the search.
FetchStep(r2, g, count, jobs, started_, totaljobs, env) ==
  IF r2.result <= 0
  THEN IF started_ > 0
       THEN [s |-> r2.s, result |-> started_, gotjobs |-> totaljobs]
       ELSE [s |-> r2.s, result |-> r2.result, gotjobs |-> 0]
  ELSE FetchLoop(r2.s, g, count, jobs, started_ + r2.result, r2.result,
                 totaljobs + r2.gotjobs, env)

\* The loop of start_fetchers; result is the result of the last search.
FetchLoop(s, g, count, jobs, started_, result, totaljobs, env) ==
  IF started_ < count /\ totaljobs < jobs
  THEN FetchStep(Retry(_start_fetcher(s, g, jobs, FALSE, env), g, jobs, env),
                 g, count, jobs, started_, totaljobs, env)
  ELSE IF started_ > 0
       THEN [s |-> s, result |-> started_, gotjobs |-> totaljobs]
       ELSE [s |-> s, result |-> result, gotjobs |-> 0]

\* start_fetchers without the test of self.started.
start_fetchers_unguarded(s, n, count, jobs, env) ==
  IF ~is_group(n) THEN LeafStartFetchers(s, n, count, jobs, env)
  ELSE IF ~s.enabled[n] \/ s.children[n] = <<>> \/ count = 0
       THEN [s |-> s, result |-> RetFalse, gotjobs |-> 0]
       ELSE FetchLoop(s, n, count, jobs, 0, RetFalse, 0, env)

\* start_fetchers of work source n: WorkSourceGroup.start_fetchers for a group,
\* the leaf's answer for a leaf.
start_fetchers(s, n, count, jobs, env) ==
  IF ~is_group(n) THEN LeafStartFetchers(s, n, count, jobs, env)
  ELSE IF ~s.started[n] \/ ~s.enabled[n] \/ s.children[n] = <<>> \/ count = 0
       THEN [s |-> s, result |-> RetFalse, gotjobs |-> 0]
       ELSE FetchLoop(s, n, count, jobs, 0, RetFalse, 0, env)

----------------------------------------------------------------------------
(* The tree and lifecycle operations, called one at a time                 *)

RunningValues == {<<1, 2>>}

\* After construction: no work source has a parent or children, none is started.
Init ==
  /\ parent = [n \in Nodes |-> None]
  /\ children = [g \in Groups |-> <<>>]
  /\ started = [n \in Nodes |-> FALSE]
  /\ last_index = [g \in Groups |-> 0]
  /\ last_time = [g \in Groups |-> 0]
  /\ now = 0
  /\ running \in [Leaves -> RunningValues]
  /\ answer = [l \in Leaves |-> NoAnswer]
  /\ enabled = [n \in Nodes |-> TRUE]
  /\ priority = [n \in Nodes |-> 1]
  /\ hashrate = [n \in Nodes |-> 0]
  /\ granularity = [g \in Groups |-> DefaultGranularity]
  /\ pending = [n \in Nodes |-> 0]
  /\ deferred = [n \in Nodes |-> 0]
  /\ tick = NoTick
  /\ fetch = NoFetch
  /\ history = <<>>
  /\ startCalls = NoCalls
  /\ stopCalls = NoCalls
  /\ failed = NoFailures
  /\ op = [kind |-> "init", g |-> None, w |-> None, raised |-> FALSE,
           wasStarted |-> FALSE, old_parent |-> None]
  /\ nops = 0
  /\ Sequential

\* The variables take the values of the state record r an operation returned.
Commit(r) ==
  /\ parent' = r.parent
  /\ children' = r.children
  /\ started' = r.started
  /\ last_index' = r.last_index
  /\ last_time' = r.last_time
  /\ now' = r.now
  /\ pending' = r.pending
  /\ deferred' = r.deferred
  /\ tick' = r.tick
  /\ UNCHANGED <<enabled, priority, hashrate, granularity, fetch, history>>
  /\ UNCHANGED threadVars
  /\ startCalls' = r.startCalls
  /\ stopCalls' = r.stopCalls
  /\ failed' = r.failed
  /\ nops < MaxOps
  /\ nops' = nops + 1

\* g.add_work_source(w); the start / stop hooks of the work sources in F raise.
AddWorkSource(g, w, F) ==
  LET r == add_work_source(Fresh, g, w, F) IN
  /\ Commit(r)
  /\ op' = [kind |-> "add", g |-> g, w |-> w, raised |-> r.exc,
            wasStarted |-> started[g], old_parent |-> parent[w]]
  /\ UNCHANGED <<running, answer>>

\* g.remove_work_source(w)
RemoveWorkSource(g, w, F) ==
  LET r == remove_work_source(Fresh, g, w, F) IN
  /\ Commit(r)
  /\ op' = [kind |-> "remove", g |-> g, w |-> w, raised |-> r.exc,
            wasStarted |-> started[g], old_parent |-> parent[w]]
  /\ UNCHANGED <<running, answer>>

\* n.start() called from outside the tree
Start(n, F) ==
  LET r == start(Fresh, n, F) IN
  /\ Commit([r EXCEPT !.exc = FALSE])
  /\ op' = [kind |-> "start", g |-> n, w |-> None, raised |-> r.exc,
            wasStarted |-> started[n], old_parent |-> None]
  /\ UNCHANGED <<running, answer>>

\* n.stop() called from outside the tree
Stop(n, F) ==
  LET r == stop(Fresh, n, F) IN
  /\ Commit([r EXCEPT !.exc = FALSE])
  /\ op' = [kind |-> "stop", g |-> n, w |-> None, raised |-> r.exc,
            wasStarted |-> started[n], old_parent |-> None]
  /\ UNCHANGED <<running, answer>>

\* The work sources of the subtree below n, n included: the only ones whose
\* hooks an operation on n can run.
RECURSIVE Subtree(_), SubtreeOfAll(_)
SubtreeOfAll(seq) ==
  IF seq = <<>> THEN {} ELSE Subtree(Head(seq)) \cup SubtreeOfAll(Tail(seq))

Subtree(n) == {n} \cup (IF n \in Groups THEN SubtreeOfAll(children[n]) ELSE {})

\* The hooks that can raise in an operation: start hooks of the work sources
\* in A, stop hooks of those in B (hooks the operation cannot reach are left out).
Faults(A, B) == [start : SUBSET A, stop : SUBSET B]

StartedIn(n) == {m \in Subtree(n) : started[m]}

AddFaults(g, w) ==
  Faults(IF started[g] THEN Subtree(w) ELSE {},
         IF parent[w] # None /\ started[parent[w]] THEN StartedIn(w) ELSE {})

Next ==
  \/ \E g \in Groups, w \in TreeNodes : \E F \in AddFaults(g, w) : AddWorkSource(g, w, F)
  \/ \E g \in Groups, w \in TreeNodes :
        \E F \in Faults({}, IF started[g] THEN StartedIn(w) ELSE {}) :
          RemoveWorkSource(g, w, F)
  \/ \E n \in TreeNodes : \E F \in Faults(Subtree(n) \ StartedIn(n), {}) :
        parent[n] = None /\ Start(n, F)
  \/ \E n \in TreeNodes : \E F \in Faults({}, StartedIn(n)) :
        parent[n] = None /\ Stop(n, F)

Spec == Init /\ [][Next]_vars

----------------------------------------------------------------------------
(* Claims about the tree and the lifecycle cascades (specification Spec)    *)

NoDuplicates(seq) == Cardinality(Range(seq)) = Len(seq)

\* C1: g.add_work_source(w) with w = g or w an ancestor of g raises, and the
\* parent link of every work source and the children list of every group are
\* what they were before the call.
C1_CycleAddFails ==
  [][(op'.kind = "add" /\ WalkMeets(State, op'.g, op'.w))
       => (op'.raised /\ parent' = parent /\ children' = children)]_vars

\* An add of a proper ancestor has been refused.
C1_Witness ==
  /\ op.kind = "add" /\ op.raised
  /\ op.w # op.g /\ WalkMeets(State, op.g, op.w)

\* C2: every work source is in the children of at most one group, at most
\* once, and in the children of g exactly when its parent link is g; after a
\* successful g.add_work_source(w) w is a child of g, has parent g and is no
\* longer a child of the parent it had before.
C2_SingleOwnership ==
  /\ \A g \in Groups : NoDuplicates(children[g])
  /\ \A g \in Groups, w \in Nodes : (w \in Range(children[g])) <=> (parent[w] = g)
  /\ (op.kind = "add" /\ ~op.raised) =>
        /\ parent[op.w] = op.g
        /\ op.w \in Range(children[op.g])
        /\ (op.old_parent \notin {None, op.g}) =>
              op.w \notin Range(children[op.old_parent])

\* A work source has been moved from one group to another.
C2_Witness ==
  /\ op.kind = "add" /\ ~op.raised
  /\ op.old_parent \notin {None, op.g}
  /\ parent[op.w] = op.g

\* C9: the start cascade (once the group's own start hook has run) and the
\* stop cascade call start() / stop() of every child exactly once whichever
\* children raise; add_work_source / remove_work_source on a started group do
\* not raise and still add / remove the child when its start() / stop() raises.
C9_ChildFailuresIsolated ==
  /\ (op.kind = "start" /\ op.g \in Groups /\ ~op.wasStarted
        /\ op.g \notin failed.start) =>
        /\ ~op.raised
        /\ \A c \in Range(children[op.g]) : startCalls[c] = 1
  /\ (op.kind = "stop" /\ op.g \in Groups /\ op.wasStarted) =>
        /\ op.raised => op.g \in failed.stop
        /\ \A c \in Range(children[op.g]) : stopCalls[c] = 1
  /\ (op.kind = "add" /\ op.wasStarted /\ op.w \in failed.start) =>
        (~op.raised /\ op.w \in Range(children[op.g]))
  /\ (op.kind = "remove" /\ op.wasStarted /\ op.w \in failed.stop) =>
        (~op.raised /\ op.w \notin Range(children[op.g]))

\* A start cascade in which a child raised and a later child was still started.
C9_Witness ==
  /\ op.kind = "start" /\ op.g \in Groups /\ ~op.raised
  /\ \E i, j \in 1..Len(children[op.g]) :
        /\ i < j
        /\ children[op.g][i] \in failed.start
        /\ startCalls[children[op.g][j]] = 1
        /\ started[children[op.g][j]]

\* C10: remove_work_source(child) on a started group that contains child
\* calls child.stop() exactly once, leaves child without parent and out of
\* the children, and the group's get_running_fetcher_count() is then the
\* pairwise sum over the children that remain.
C10_RemoveStopsOnce ==
  [][(op'.kind = "remove" /\ started[op'.g] /\ op'.w \in Range(children[op'.g]))
       => /\ stopCalls'[op'.w] = 1
          /\ parent'[op'.w] = None
          /\ op'.w \notin Range(children'[op'.g])
          /\ get_running_fetcher_count(children', running', op'.g)
               = SumCounts(children, running,
                           SelectSeq(children[op'.g], LAMBDA c : c # op'.w))]_vars

\* A child with running fetchers has been removed from a started group that
\* keeps other children.
C10_Witness ==
  /\ op.kind = "remove" /\ op.wasStarted /\ stopCalls[op.w] = 1
  /\ parent[op.w] = None
  /\ children[op.g] # <<>>
  /\ get_running_fetcher_count(children, running, op.w) # <<0, 0>>

\* C15 as stated: g.add_work_source(w) for a w that is already a child of g
\* leaves the children of g and the parent of w as they were, and neither
\* starts nor stops w.
C15_AsStated ==
  [][(op'.kind = "add" /\ parent[op'.w] = op'.g /\ ~op'.raised) =>
       /\ children'[op'.g] = children[op'.g]
       /\ parent'[op'.w] = op'.g
       /\ startCalls'[op'.w] = 0
       /\ stopCalls'[op'.w] = 0]_vars

----------------------------------------------------------------------------
(* Replenishment ticks on one group (specification SpecTick)               *)

\* The group that is replenished and its children: group 2 and the tree leaves.
Root == 1
Kids == {2} \cup TreeLeaves

RECURSIVE SetToSeq(_)
\* The elements of a set of numbers in increasing order.
SetToSeq(S) ==
  IF S = {} THEN <<>>
  ELSE LET m == CHOOSE x \in S : \A y \in S : x <= y
       IN <<m>> \o SetToSeq(S \ {m})

\* A child's throughput estimate and unused quota of earlier ticks.
Profiles ==
  { [hashrate |-> 0, deferred |-> 0],
    [hashrate |-> MHashUnit, deferred |-> 0],
    [hashrate |-> 0, deferred |-> 100] }

\* The tree after Root.add_work_source(k) for every k of Kids and Root.start();
\* the settings of the children are drawn from the bounded sets.
TickInit ==
  /\ parent = [n \in Nodes |-> IF n \in Kids THEN Root ELSE None]
  /\ children = [g \in Groups |-> IF g = Root THEN SetToSeq(Kids) ELSE <<>>]
  /\ started = [n \in Nodes |-> n \in Kids \cup {Root}]
  /\ last_index = [g \in Groups |-> 0]
  /\ last_time = [g \in Groups |-> 0]
  /\ now = 0
  /\ running = [l \in Leaves |-> <<0, 0>>]
  /\ answer = [l \in Leaves |-> NoAnswer]
  /\ enabled \in [Nodes -> BOOLEAN]
  /\ \A n \in Nodes \ Kids : enabled[n]
  /\ priority \in [Nodes -> 0..MaxPriority]
  /\ \A n \in Nodes \ Kids : priority[n] = 1
  /\ \E prof \in [Kids -> Profiles] :
        /\ hashrate = [n \in Nodes |-> IF n \in Kids THEN prof[n].hashrate ELSE 0]
        /\ deferred = [n \in Nodes |-> IF n \in Kids THEN prof[n].deferred ELSE 0]
  /\ granularity \in [Groups -> Granularities]
  /\ \A g \in Groups \ {Root} : granularity[g] = DefaultGranularity
  /\ pending = [n \in Nodes |-> 0]
  /\ tick = NoTick
  /\ fetch = NoFetch
  /\ history = <<>>
  /\ startCalls = NoCalls
  /\ stopCalls = NoCalls
  /\ failed = NoFailures
  /\ op = [kind |-> "init", g |-> None, w |-> None, raised |-> FALSE,
           wasStarted |-> FALSE, old_parent |-> None]
  /\ nops = 0
  /\ Sequential

\* One call of Root._distribute_mhashes(), dt after the clock was last read.
Distribute(dt) ==
  LET r == _distribute_mhashes(Fresh, Root, [dt |-> dt]) IN
  /\ nops < MaxTicks
  /\ nops' = nops + 1
  /\ pending' = r.pending
  /\ deferred' = r.deferred
  /\ last_time' = r.last_time
  /\ now' = r.now
  /\ tick' = r.tick
  /\ op' = [kind |-> "tick", g |-> Root, w |-> None, raised |-> FALSE,
            wasStarted |-> started[Root], old_parent |-> None]
  /\ UNCHANGED <<parent, children, started, last_index, running, answer, enabled,
                 priority, hashrate, granularity, fetch, history, startCalls,
                 stopCalls, failed>>
  /\ UNCHANGED threadVars

TickNext == \E dt \in 0..MaxElapsed : Distribute(dt)

SpecTick == TickInit /\ [][TickNext]_vars

RECURSIVE SumOver(_, _)
\* The sum of f[n] over the numbers n of the set S.
SumOver(f, S) ==
  IF S = {} THEN 0
  ELSE LET n == CHOOSE x \in S : TRUE IN f[n] + SumOver(f, S \ {n})

EnabledKids == {c \in Kids : enabled[c]}

\* What a tick step credits to the pending quota of the enabled children.
Credited == SumOver([c \in Nodes |-> pending'[c] - pending[c]], EnabledKids)

\* A tenth of the deferred quota of the enabled children, before the tick.
CarryForward == SumOver([c \in Nodes |-> deferred[c] \div 10], EnabledKids)

C13_AsStated ==
  [][op'.kind = "tick" =>
       /\ tick'.timestep = now' - last_time[Root]
       /\ tick'.pool = tick'.timestep * MHashUnit * granularity[Root]
       /\ last_time'[Root] = now']_vars

----------------------------------------------------------------------------
(* One start_fetchers call on the root group (specification SpecFetch)     *)

\* The settings and the pending quota of a leaf.
LeafProfiles ==
  { [enabled |-> TRUE, priority |-> 1, pending |-> MHashUnit],
    [enabled |-> TRUE, priority |-> 1, pending |-> 0],
    [enabled |-> TRUE, priority |-> 0, pending |-> 0],
    [enabled |-> FALSE, priority |-> 1, pending |-> 0] }

\* What a leaf answers to start_fetchers(1, jobs): False, no fetcher, or one
\* fetcher for 1 unit.
LeafAnswers ==
  { NoAnswer, [result |-> 0, gotjobs |-> 0], [result |-> 1, gotjobs |-> 1] }

\* The leaves of the dispatcher specifications: settings, pending quota and
\* answer; one more kind of leaf holds quota and answers with one fetcher for
\* as many units as it is asked for.
LeafKinds ==
  { [enabled |-> p.enabled, priority |-> p.priority, pending |-> p.pending,
     result |-> a.result, gotjobs |-> a.gotjobs] :
      p \in LeafProfiles, a \in LeafAnswers }
    \cup { [enabled |-> TRUE, priority |-> 1, pending |-> MHashUnit,
            result |-> 1, gotjobs |-> MaxRequest] }

\* Which of the root group and group 2 is not started or not enabled.
GroupModes ==
  { [stopped |-> {}, disabled |-> {}], [stopped |-> {Root}, disabled |-> {}],
    [stopped |-> {}, disabled |-> {Root}], [stopped |-> {2}, disabled |-> {}] }

\* The leaves numbered from lo to hi, in order.
LeafRun(lo, hi) == [i \in 1..(hi - lo + 1) |-> lo + i - 1]

\* Trees built by add_work_source: the first k leaves are children of the root
\* group, the others of group 2, and group 2 is the first child of the root
\* group, or detached when the leaves are all children of one group.
FetchInit ==
  /\ \E k \in 0..NumLeaves, nest \in BOOLEAN :
        /\ nest \/ k \in {0, NumLeaves}
        /\ parent = [n \in Nodes |->
                       IF n \in Leaves THEN (IF n <= NumGroups + k THEN Root ELSE 2)
                       ELSE IF n = 2 /\ nest THEN Root ELSE None]
        /\ children = [g \in Groups |->
                         IF g = Root
                         THEN (IF nest THEN <<2>> ELSE <<>>)
                                \o LeafRun(NumGroups + 1, NumGroups + k)
                         ELSE IF g = 2
                         THEN LeafRun(NumGroups + k + 1, NumGroups + NumLeaves)
                         ELSE <<>>]
  /\ \E mode \in GroupModes, kind \in [Leaves -> LeafKinds] :
        /\ started = [n \in Nodes |-> n \notin mode.stopped]
        /\ enabled = [n \in Nodes |-> IF n \in Leaves THEN kind[n].enabled
                                      ELSE n \notin mode.disabled]
        /\ priority = [n \in Nodes |-> IF n \in Leaves THEN kind[n].priority ELSE 1]
        /\ pending = [n \in Nodes |-> IF n \in Leaves THEN kind[n].pending ELSE 0]
        /\ answer = [l \in Leaves |-> [result |-> kind[l].result,
                                       gotjobs |-> kind[l].gotjobs]]
  /\ hashrate = [n \in Nodes |-> 0]
  /\ deferred = [n \in Nodes |-> 0]
  /\ granularity = [g \in Groups |-> DefaultGranularity]
  /\ last_index = [g \in Groups |-> 0]
  /\ last_time = [g \in Groups |-> 0]
  /\ now = 0
  /\ running = [l \in Leaves |-> <<0, 0>>]
  /\ tick = NoTick
  /\ fetch = NoFetch
  /\ history = <<>>
  /\ startCalls = NoCalls
  /\ stopCalls = NoCalls
  /\ failed = NoFailures
  /\ op = [kind |-> "init", g |-> None, w |-> None, raised |-> FALSE,
           wasStarted |-> FALSE, old_parent |-> None]
  /\ nops = 0
  /\ Sequential

\* The children of g are leaves that all hold a reference unit of quota and
\* all answer with progress.
EquallyEligible(g) ==
  \A c \in Range(children[g]) :
    ~is_group(c) /\ pending[c] >= MHashUnit /\ answer[c].result > 0

\* The variables after a start_fetchers(count, jobs) call on g that returned r.
Fetched(r, g, count, jobs) ==
  /\ pending' = r.s.pending
  /\ deferred' = r.s.deferred
  /\ last_index' = r.s.last_index
  /\ last_time' = r.s.last_time
  /\ now' = r.s.now
  /\ tick' = r.s.tick
  /\ fetch' = [g |-> g, count |-> count, jobs |-> jobs, result |-> r.result,
               gotjobs |-> r.gotjobs, log |-> r.s.log]
  /\ history' = Append(history, [g |-> g, eligible |-> EquallyEligible(g),
                                 chosen |-> r.s.log.chosen])
  /\ op' = [kind |-> "fetch", g |-> g, w |-> None, raised |-> FALSE,
            wasStarted |-> started[g], old_parent |-> None]
  /\ nops' = nops + 1
  /\ UNCHANGED <<parent, children, started, running, answer, enabled, priority,
                 hashrate, granularity, startCalls, stopCalls, failed>>
  /\ UNCHANGED threadVars

\* g.start_fetchers(count, jobs) called from outside the tree; the clock
\* advances by dt between two readings.
StartFetchers(g, count, jobs, dt) ==
  Fetched(start_fetchers(Fresh, g, count, jobs, [res |-> answer, dt |-> dt]),
          g, count, jobs)

FetchNext ==
  \E count \in 0..MaxRequest, jobs \in {1, MaxRequest} :
    nops = 0 /\ StartFetchers(Root, count, jobs, MaxElapsed)

SpecFetch == FetchInit /\ [][FetchNext]_vars

\* C3: a _start_fetcher call on a non-empty children list walks the ring at
\* most GiveUpIterations (150) times, whatever the settings, the pending quota
\* and the answers of the children (and start_fetchers returns).
C3_BoundedSearch ==
  /\ fetch.log.iters <= GiveUpIterations
  /\ op.kind = "fetch" => fetch.result \in RetFalse..fetch.count

\* A search walked the ring without finding a child until force was switched on.
C3_Witness ==
  /\ op.kind = "fetch"
  /\ fetch.log.iters > ForceIterations
  /\ fetch.log.ticks > ForceIterations

\* C4 as stated: a leaf that was debited and whose start_fetchers calls all
\* returned False has, absent a replenishment, the pending quota it had before.
C4_AsStated ==
  [][op'.kind = "fetch" =>
       \A l \in Leaves :
         (/\ fetch'.log.debits[l] > 0
          /\ fetch'.log.falses[l] = fetch'.log.calls[l]
          /\ fetch'.log.ticks = 0)
           => pending'[l] = pending[l]]_vars

\* C7: start_fetchers on a group that is not started, is disabled, has no
\* children, or is asked for 0 fetchers returns (False, 0), calls no child,
\* does not replenish, and leaves the pending quota and the cursor alone.
C7_FailFast ==
  [][(/\ op'.kind = "fetch"
      /\ \/ ~started[fetch'.g] \/ ~enabled[fetch'.g]
         \/ children[fetch'.g] = <<>> \/ fetch'.count = 0)
       => /\ fetch'.result = RetFalse /\ fetch'.gotjobs = 0
          /\ fetch'.log = NoLog
          /\ pending' = pending /\ last_index' = last_index
          /\ tick' = tick /\ last_time' = last_time]_vars

\* A group that is not started, with an eligible child, was asked for fetchers.
C7_Witness ==
  /\ op.kind = "fetch" /\ fetch.count > 0
  /\ ~started[fetch.g]
  /\ \E c \in Range(children[fetch.g]) : ~is_group(c) /\ pending[c] >= MHashUnit
  /\ fetch.result = RetFalse

\* C8 as stated: with leaves that honour the contract, the result of
\* start_fetchers(count, jobs) is within the request: at most count fetchers
\* and at most jobs units.
C8_AsStated ==
  (op.kind = "fetch" /\ fetch.result > 0) =>
    (fetch.result <= fetch.count /\ fetch.gotjobs <= fetch.jobs)

\* C11 as stated: in a start_fetchers call without replenishment, a leaf that
\* was dispatched to once and reported progress holds one reference unit less
\* than before, and the pending quota of the groups is unchanged.
C11_AsStated ==
  [][(op'.kind = "fetch" /\ fetch'.log.ticks = 0) =>
       /\ \A l \in Leaves :
            (/\ fetch'.log.calls[l] = 1
             /\ fetch'.log.debits[l] = 1
             /\ answer[l].result > 0)
              => pending'[l] = pending[l] - MHashUnit
       /\ \A g \in Groups : pending'[g] = pending[g]]_vars

\* C12 as stated: a leaf whose enabled setting is false is not credited, not
\* debited and not called by a start_fetchers call on the group.
C12_AsStated ==
  [][op'.kind = "fetch" =>
       \A l \in Leaves :
         ~enabled[l] => /\ fetch'.log.calls[l] = 0
                        /\ fetch'.log.debits[l] = 0
                        /\ pending'[l] = pending[l]]_vars

\* C14 as stated: in a start_fetchers call none of whose searches walked the
\* ring more than ForceIterations (100) times, and without replenishment, a
\* leaf whose pending quota is below the reference unit is not debited and not
\* called.
C14_AsStated ==
  [][(/\ op'.kind = "fetch"
      /\ fetch'.log.iters <= ForceIterations
      /\ fetch'.log.ticks = 0) =>
       \A l \in Leaves :
         pending[l] < MHashUnit => /\ fetch'.log.debits[l] = 0
                                   /\ fetch'.log.calls[l] = 0]_vars

----------------------------------------------------------------------------
(* Successive start_fetchers(1, jobs) calls (specification SpecRound)      *)

\* The calls made in one run: one more than a full round over the leaves.
RoundCalls == NumLeaves + 1

\* Every leaf is a child of the started, enabled root group; the cursor is
\* where earlier calls left it.
RoundInit ==
  /\ parent = [n \in Nodes |-> IF n \in Leaves THEN Root ELSE None]
  /\ children = [g \in Groups |->
                   IF g = Root THEN LeafRun(NumGroups + 1, NumGroups + NumLeaves)
                   ELSE <<>>]
  /\ started = [n \in Nodes |-> TRUE]
  /\ \E kind \in [Leaves -> LeafKinds] :
        /\ enabled = [n \in Nodes |-> IF n \in Leaves THEN kind[n].enabled ELSE TRUE]
        /\ priority = [n \in Nodes |-> IF n \in Leaves THEN kind[n].priority ELSE 1]
        /\ pending = [n \in Nodes |-> IF n \in Leaves THEN kind[n].pending ELSE 0]
        /\ answer = [l \in Leaves |-> [result |-> kind[l].result,
                                       gotjobs |-> kind[l].gotjobs]]
  /\ hashrate = [n \in Nodes |-> 0]
  /\ deferred = [n \in Nodes |-> 0]
  /\ granularity = [g \in Groups |-> DefaultGranularity]
  /\ last_index \in [Groups -> 0..(NumLeaves - 1)]
  /\ \A g \in Groups \ {Root} : last_index[g] = 0
  /\ last_time = [g \in Groups |-> 0]
  /\ now = 0
  /\ running = [l \in Leaves |-> <<0, 0>>]
  /\ tick = NoTick
  /\ fetch = NoFetch
  /\ history = <<>>
  /\ startCalls = NoCalls
  /\ stopCalls = NoCalls
  /\ failed = NoFailures
  /\ op = [kind |-> "init", g |-> None, w |-> None, raised |-> FALSE,
           wasStarted |-> FALSE, old_parent |-> None]
  /\ nops = 0
  /\ Sequential

RoundNext ==
  \E jobs \in {1, MaxRequest} :
    nops < RoundCalls /\ StartFetchers(Root, 1, jobs, MaxElapsed)

SpecRound == RoundInit /\ [][RoundNext]_vars

\* The calls first..last of the history were made with equally eligible
\* children and each dispatched to one child.
EligibleWindow(first, last) ==
  \A j \in first..last :
    history[j].eligible /\ Len(history[j].chosen) = 1

\* C5: over any N consecutive successful start_fetchers(1, jobs) calls on a
\* group with N equally eligible leaf children, the N children chosen are
\* distinct.
C5_RoundRobin ==
  LET N == Len(children[Root]) IN
  \A i \in 1..(Len(history) - N + 1) :
    EligibleWindow(i, i + N - 1)
      => Cardinality({history[j].chosen[1] : j \in i..(i + N - 1)}) = N

\* A full round and one more call have been dispatched, and the last call chose
\* the child of the first one.
C5_Witness ==
  /\ Len(history) = RoundCalls
  /\ EligibleWindow(1, RoundCalls)
  /\ history[RoundCalls].chosen = history[1].chosen
  /\ history[2].chosen # history[1].chosen

----------------------------------------------------------------------------
(* add_work_source / remove_work_source called from several threads         *)
(* Every thread makes one call.  A step is one acquisition of a lock, or    *)
(* the code between two accesses to state another thread can reach.         *)

\* RLock: a thread may take a lock that is free or that it holds already.
Free(lock, t) == lock.owner = None \/ lock.owner = t

Acquire(lock, t) == [owner |-> t, count |-> lock.count + 1]

Release(lock) ==
  IF lock.count = 1 THEN Unlocked ELSE [lock EXCEPT !.count = @ - 1]

\* The thread moves to statement to with the locals fr.
Goto(t, to, fr) ==
  /\ pc' = [pc EXCEPT ![t] = to]
  /\ frame' = [frame EXCEPT ![t] = fr]

treeVars == <<parent, children, started, last_index, last_time>>

quotaVars == <<pending, deferred, tick>>

restVars ==
  <<now, running, answer, enabled, priority, hashrate, granularity, fetch,
    history, startCalls, stopCalls, failed, op, nops>>

\* Startable.start / stop take the start_stop_lock of the work source, and a
\* group's _start / _stop its childlock, all the way down the cascade: the
\* cascade can run when thread t can take every lock below n.
RECURSIVE CascadeFree(_, _)
CascadeFree(n, t) ==
  /\ Free(start_stop_lock[n], t)
  /\ n \in Groups =>
       /\ Free(childlock[n], t)
       /\ \A c \in Range(children[n]) : CascadeFree(c, t)

\* The state after a start / stop cascade that returned the state record r.
Cascaded(r) ==
  /\ started' = r.started
  /\ last_index' = r.last_index
  /\ last_time' = r.last_time
  /\ UNCHANGED <<parent, children>>

\* Thread t calls g.add_work_source(worksource).
CallAdd(t, g, worksource) ==
  /\ pc[t] = "idle"
  /\ Goto(t, "add_82", [NoFrame EXCEPT !.op = "add", !.g = g,
                                      !.worksource = worksource])
  /\ UNCHANGED <<treeVars, quotaVars, restVars, start_stop_lock, childlock>>

\* Thread t calls g.remove_work_source(worksource).
CallRemove(t, g, worksource) ==
  /\ pc[t] = "idle"
  /\ Goto(t, "rm_102", [NoFrame EXCEPT !.op = "remove", !.self = g,
                                       !.worksource = worksource])
  /\ UNCHANGED <<treeVars, quotaVars, restVars, start_stop_lock, childlock>>

\* with self.start_stop_lock: w = self
Add82(t) ==
  /\ pc[t] = "add_82"
  /\ Free(start_stop_lock[frame[t].g], t)
  /\ start_stop_lock' =
       [start_stop_lock EXCEPT ![frame[t].g] = Acquire(@, t)]
  /\ Goto(t, "add_84", [frame[t] EXCEPT !.w = frame[t].g])
  /\ UNCHANGED <<treeVars, quotaVars, restVars, childlock>>

\* One turn of the walk: while w: if w == worksource: raise; w = w.get_parent().
\* The exception leaves the with block, which releases the lock.
Add84(t) ==
  /\ pc[t] = "add_84"
  /\ IF frame[t].w = None
     THEN /\ Goto(t, "add_87", frame[t])
          /\ UNCHANGED start_stop_lock
     ELSE IF frame[t].w = frame[t].worksource
     THEN /\ Goto(t, "done", [frame[t] EXCEPT !.raised = TRUE])
          /\ start_stop_lock' =
               [start_stop_lock EXCEPT ![frame[t].g] = Release(@)]
     ELSE /\ Goto(t, "add_84", [frame[t] EXCEPT !.w = get_parent(State, frame[t].w)])
          /\ UNCHANGED start_stop_lock
  /\ UNCHANGED <<treeVars, quotaVars, restVars, childlock>>

\* old_parent = worksource.get_parent()
Add87(t) ==
  /\ pc[t] = "add_87"
  /\ Goto(t, "add_88",
          [frame[t] EXCEPT !.old_parent = get_parent(State, frame[t].worksource)])
  /\ UNCHANGED <<treeVars, quotaVars, restVars, start_stop_lock, childlock>>

\* if old_parent: old_parent.remove_work_source(worksource)
Add88(t) ==
  /\ pc[t] = "add_88"
  /\ IF frame[t].old_parent # None
     THEN Goto(t, "rm_102", [frame[t] EXCEPT !.self = frame[t].old_parent,
                                              !.return = "add_89"])
     ELSE Goto(t, "add_89", frame[t])
  /\ UNCHANGED <<treeVars, quotaVars, restVars, start_stop_lock, childlock>>

\* worksource.set_parent(self)
Add89(t) ==
  /\ pc[t] = "add_89"
  /\ parent' = set_parent(State, frame[t].worksource, frame[t].g).parent
  /\ Goto(t, "add_90", frame[t])
  /\ UNCHANGED <<children, started, last_index, last_time>>
  /\ UNCHANGED <<quotaVars, restVars, start_stop_lock, childlock>>

\* with self.childlock:
Add90(t) ==
  /\ pc[t] = "add_90"
  /\ Free(childlock[frame[t].g], t)
  /\ childlock' = [childlock EXCEPT ![frame[t].g] = Acquire(@, t)]
  /\ Goto(t, "add_91", frame[t])
  /\ UNCHANGED <<treeVars, quotaVars, restVars, start_stop_lock>>

\* if not worksource in self.children: if self.started: ...
\* When the child is in the list both with blocks end.
Add91(t) ==
  /\ pc[t] = "add_91"
  /\ IF frame[t].worksource \in Range(children[frame[t].g])
     THEN /\ Goto(t, "done", frame[t])
          /\ childlock' = [childlock EXCEPT ![frame[t].g] = Release(@)]
          /\ start_stop_lock' =
               [start_stop_lock EXCEPT ![frame[t].g] = Release(@)]
     ELSE /\ Goto(t, IF started[frame[t].g] THEN "add_95" ELSE "add_98", frame[t])
          /\ UNCHANGED <<start_stop_lock, childlock>>
  /\ UNCHANGED <<treeVars, quotaVars, restVars>>

\* worksource.start()
Add95(t) ==
  /\ pc[t] = "add_95"
  /\ CascadeFree(frame[t].worksource, t)
  /\ Cascaded(start(Fresh, frame[t].worksource, NoFailures))
  /\ Goto(t, "add_98", frame[t])
  /\ UNCHANGED <<quotaVars, restVars, start_stop_lock, childlock>>

\* self.children.append(worksource), and both with blocks end.
Add98(t) ==
  /\ pc[t] = "add_98"
  /\ children' = [children EXCEPT ![frame[t].g] = Append(@, frame[t].worksource)]
  /\ childlock' = [childlock EXCEPT ![frame[t].g] = Release(@)]
  /\ start_stop_lock' = [start_stop_lock EXCEPT ![frame[t].g] = Release(@)]
  /\ Goto(t, "done", frame[t])
  /\ UNCHANGED <<parent, started, last_index, last_time>>
  /\ UNCHANGED <<quotaVars, restVars>>

\* with self.start_stop_lock:
Rm102(t) ==
  /\ pc[t] = "rm_102"
  /\ Free(start_stop_lock[frame[t].self], t)
  /\ start_stop_lock' =
       [start_stop_lock EXCEPT ![frame[t].self] = Acquire(@, t)]
  /\ Goto(t, "rm_103", frame[t])
  /\ UNCHANGED <<treeVars, quotaVars, restVars, childlock>>

\* with self.childlock:
Rm103(t) ==
  /\ pc[t] = "rm_103"
  /\ Free(childlock[frame[t].self], t)
  /\ childlock' = [childlock EXCEPT ![frame[t].self] = Acquire(@, t)]
  /\ Goto(t, "rm_104", frame[t])
  /\ UNCHANGED <<treeVars, quotaVars, restVars, start_stop_lock>>

\* while worksource in self.children: when the loop ends both with blocks end
\* and the call returns, to line 89 when add_work_source made it.
Rm104(t) ==
  /\ pc[t] = "rm_104"
  /\ IF frame[t].worksource \in Range(children[frame[t].self])
     THEN /\ Goto(t, "rm_105", frame[t])
          /\ UNCHANGED <<start_stop_lock, childlock>>
     ELSE /\ Goto(t, frame[t].return, frame[t])
          /\ childlock' = [childlock EXCEPT ![frame[t].self] = Release(@)]
          /\ start_stop_lock' =
               [start_stop_lock EXCEPT ![frame[t].self] = Release(@)]
  /\ UNCHANGED <<treeVars, quotaVars, restVars>>

\* worksource.set_parent(); if self.started: ...
Rm105(t) ==
  /\ pc[t] = "rm_105"
  /\ parent' = set_parent(State, frame[t].worksource, None).parent
  /\ Goto(t, IF started[frame[t].self] THEN "rm_109" ELSE "rm_112", frame[t])
  /\ UNCHANGED <<children, started, last_index, last_time>>
  /\ UNCHANGED <<quotaVars, restVars, start_stop_lock, childlock>>

\* worksource.stop()
Rm109(t) ==
  /\ pc[t] = "rm_109"
  /\ CascadeFree(frame[t].worksource, t)
  /\ Cascaded(stop(Fresh, frame[t].worksource, NoFailures))
  /\ Goto(t, "rm_112", frame[t])
  /\ UNCHANGED <<quotaVars, restVars, start_stop_lock, childlock>>

\* self.children.remove(worksource)
Rm112(t) ==
  /\ pc[t] = "rm_112"
  /\ children' = [children EXCEPT ![frame[t].self] = ListRemove(@, frame[t].worksource)]
  /\ Goto(t, "rm_104", frame[t])
  /\ UNCHANGED <<parent, started, last_index, last_time>>
  /\ UNCHANGED <<quotaVars, restVars, start_stop_lock, childlock>>

\* The leaves placed under group g, in increasing order.
LeafRunIn(place, g) == SetToSeq({l \in Leaves : place[l] = g})

\* Two detached groups, both started or both stopped; every leaf is detached
\* or the child of one of them, and runs when its group does.
ThreadsInit ==
  /\ \E place \in [Leaves -> {None} \cup Groups], up \in BOOLEAN :
       /\ parent = [n \in Nodes |-> IF n \in Leaves THEN place[n] ELSE None]
       /\ children = [g \in Groups |-> LeafRunIn(place, g)]
       /\ started = [n \in Nodes |->
                       up /\ (n \in Leaves => place[n] # None)]
  /\ last_index = [g \in Groups |-> 0]
  /\ last_time = [g \in Groups |-> 0]
  /\ now = 0
  /\ running \in [Leaves -> RunningValues]
  /\ answer = [l \in Leaves |-> NoAnswer]
  /\ enabled = [n \in Nodes |-> TRUE]
  /\ priority = [n \in Nodes |-> 1]
  /\ hashrate = [n \in Nodes |-> 0]
  /\ granularity = [g \in Groups |-> DefaultGranularity]
  /\ pending = [n \in Nodes |-> 0]
  /\ deferred = [n \in Nodes |-> 0]
  /\ tick = NoTick
  /\ fetch = NoFetch
  /\ history = <<>>
  /\ startCalls = NoCalls
  /\ stopCalls = NoCalls
  /\ failed = NoFailures
  /\ op = [kind |-> "init", g |-> None, w |-> None, raised |-> FALSE,
           wasStarted |-> FALSE, old_parent |-> None]
  /\ nops = 0
  /\ Sequential

ThreadsNext ==
  \E t \in Threads :
    \/ \E g \in Groups, worksource \in Nodes : CallAdd(t, g, worksource)
    \/ \E g \in Groups, worksource \in Nodes : CallRemove(t, g, worksource)
    \/ Add82(t) \/ Add84(t) \/ Add87(t) \/ Add88(t) \/ Add89(t)
    \/ Add90(t) \/ Add91(t) \/ Add95(t) \/ Add98(t)
    \/ Rm102(t) \/ Rm103(t) \/ Rm104(t) \/ Rm105(t) \/ Rm109(t) \/ Rm112(t)

SpecThreads == ThreadsInit /\ [][ThreadsNext]_vars

----------------------------------------------------------------------------
(* Claims about concurrent tree operations (specification SpecThreads)      *)

\* The work source k parent links above n (None above a root).
RECURSIVE Up(_, _)
Up(n, k) ==
  IF k = 0 \/ n = None THEN n ELSE Up(parent[n], k - 1)

OwnAncestor(n) == \E k \in 1..Cardinality(Nodes) : Up(n, k) = n

\* C16: whatever add_work_source calls the threads make and however their
\* steps interleave, no work source is its own ancestor in the parent relation.
C16_AsStated ==
  \A n \in Nodes : ~OwnAncestor(n)

\* Every call a thread made has returned.
AllReturned == \A t \in Threads : pc[t] \in {"idle", "done"}

\* The groups that have w in their children.
Owners(w) == {g \in Groups : w \in Range(children[g])}

\* C17: once every add_work_source / remove_work_source call of every thread
\* has returned, each work source is in the children of at most one group,
\* is in the children of its parent when it has one, and has for parent the
\* group whose children it is in.
C17_AsStated ==
  AllReturned =>
    \A w \in Nodes :
      /\ Cardinality(Owners(w)) <= 1
      /\ parent[w] # None => parent[w] \in Owners(w)
      /\ \A g \in Owners(w) : parent[w] = g

\* Thread t cannot take its next step: it waits for a lock another thread holds.
Blocked(t) ==
  \/ pc[t] = "add_82" /\ ~Free(start_stop_lock[frame[t].g], t)
  \/ pc[t] = "add_90" /\ ~Free(childlock[frame[t].g], t)
  \/ pc[t] = "rm_102" /\ ~Free(start_stop_lock[frame[t].self], t)
  \/ pc[t] = "rm_103" /\ ~Free(childlock[frame[t].self], t)
  \/ pc[t] = "f_170" /\ ~Free(childlock[frame[t].self], t)
  \/ pc[t] \in {"add_95", "rm_109"} /\ ~CascadeFree(frame[t].worksource, t)

\* C19: the threads never deadlock: while a call has not returned, some
\* thread inside a call can take a step.
C19_AsStated ==
  ~AllReturned => \E t \in Threads : pc[t] \notin {"idle", "done"} /\ ~Blocked(t)

----------------------------------------------------------------------------
(* start_fetchers called from several threads, next to remove_work_source   *)
(* The children of the root group are leaves.  A step is one acquisition of *)
(* a lock, one access to a field another thread can write, or one call.     *)

\* Thread t calls Root.start_fetchers(count, jobs).
CallFetch(t, count, jobs) ==
  /\ pc[t] = "idle"
  /\ Goto(t, "sf_207", [NoFrame EXCEPT !.op = "fetch", !.self = Root,
                                       !.count = count, !.jobs = jobs])
  /\ UNCHANGED <<treeVars, quotaVars, restVars, start_stop_lock, childlock>>

\* The thread returns from start_fetchers with (result, gotjobs).
Return(t, result, gotjobs) ==
  Goto(t, "done", [frame[t] EXCEPT !.result = result, !.gotjobs = gotjobs])

\* if not self.started or not self.settings.enabled or not self.children
\*    or not count: return False, 0
Sf207(t) ==
  /\ pc[t] = "sf_207"
  /\ IF \/ ~started[frame[t].self] \/ ~enabled[frame[t].self]
        \/ children[frame[t].self] = <<>> \/ frame[t].count = 0
     THEN Return(t, RetFalse, 0)
     ELSE Goto(t, "sf_211", [frame[t] EXCEPT !.started = 0, !.totaljobs = 0,
                                              !.result = RetFalse])
  /\ UNCHANGED <<treeVars, quotaVars, restVars, start_stop_lock, childlock>>

\* while started < count and totaljobs < jobs: self._start_fetcher(jobs);
\* after the loop: if started: return started, totaljobs; return result, 0
Sf211(t) ==
  /\ pc[t] = "sf_211"
  /\ IF frame[t].started < frame[t].count /\ frame[t].totaljobs < frame[t].jobs
     THEN Goto(t, "f_170", [frame[t] EXCEPT !.force = FALSE, !.return = "sf_212"])
     ELSE IF frame[t].started > 0
     THEN Return(t, frame[t].started, frame[t].totaljobs)
     ELSE Return(t, frame[t].result, 0)
  /\ UNCHANGED <<treeVars, quotaVars, restVars, start_stop_lock, childlock>>

\* if not result: result, newjobs = self._start_fetcher(jobs, True)
Sf212(t) ==
  /\ pc[t] = "sf_212"
  /\ IF frame[t].result <= 0
     THEN Goto(t, "f_170", [frame[t] EXCEPT !.force = TRUE, !.forced = TRUE,
                                             !.return = "sf_213"])
     ELSE Goto(t, "sf_211",
               [frame[t] EXCEPT !.started = @ + frame[t].result,
                                !.totaljobs = @ + frame[t].gotjobs])
  /\ UNCHANGED <<treeVars, quotaVars, restVars, start_stop_lock, childlock>>

\* if not result: break; started += result; totaljobs += newjobs
Sf213(t) ==
  /\ pc[t] = "sf_213"
  /\ IF frame[t].result <= 0
     THEN IF frame[t].started > 0
          THEN Return(t, frame[t].started, frame[t].totaljobs)
          ELSE Return(t, frame[t].result, 0)
     ELSE Goto(t, "sf_211",
               [frame[t] EXCEPT !.started = @ + frame[t].result,
                                !.totaljobs = @ + frame[t].gotjobs])
  /\ UNCHANGED <<treeVars, quotaVars, restVars, start_stop_lock, childlock>>

\* with self.childlock:
F170(t) ==
  /\ pc[t] = "f_170"
  /\ Free(childlock[frame[t].self], t)
  /\ childlock' = [childlock EXCEPT ![frame[t].self] = Acquire(@, t)]
  /\ Goto(t, "f_171", frame[t])
  /\ UNCHANGED <<treeVars, quotaVars, restVars, start_stop_lock>>

\* children = [child for child in self.children];
\* startindex = self._get_start_index(); the with block ends;
\* best = False; found = False; iteration = 0
F171(t) ==
  /\ pc[t] = "f_171"
  /\ last_index' = _get_start_index(State, frame[t].self).s.last_index
  /\ childlock' = [childlock EXCEPT ![frame[t].self] = Release(@)]
  /\ Goto(t, "f_176",
          [frame[t] EXCEPT !.children = children[frame[t].self],
                           !.startindex = _get_start_index(State, frame[t].self).index,
                           !.best = RetFalse, !.found = FALSE, !.iteration = 0])
  /\ UNCHANGED <<parent, children, started, last_time>>
  /\ UNCHANGED <<quotaVars, restVars, start_stop_lock>>

\* while not found: index = startindex; first = True;
\* after the loop: return best, 0
F176(t) ==
  /\ pc[t] = "f_176"
  /\ IF frame[t].found
     THEN Goto(t, frame[t].return,
               [frame[t] EXCEPT !.result = frame[t].best, !.gotjobs = 0])
     ELSE Goto(t, "f_179", [frame[t] EXCEPT !.index = frame[t].startindex,
                                             !.first = TRUE])
  /\ UNCHANGED <<treeVars, quotaVars, restVars, start_stop_lock, childlock>>

\* while index != startindex or first: worksource = children[index].
\* The list is indexed from 0: an index past its end raises IndexError, which
\* nothing catches on the way out of start_fetchers.
F179(t) ==
  /\ pc[t] = "f_179"
  /\ IF frame[t].index = frame[t].startindex /\ ~frame[t].first
     THEN Goto(t, "f_194", frame[t])
     ELSE IF frame[t].index >= Len(frame[t].children)
     THEN Goto(t, "done", [frame[t] EXCEPT !.raised = TRUE, !.crashed = TRUE])
     ELSE Goto(t, "f_183",
               [frame[t] EXCEPT !.worksource = frame[t].children[frame[t].index + 1]])
  /\ UNCHANGED <<treeVars, quotaVars, restVars, start_stop_lock, childlock>>

\* The reference unit of a leaf (2**32 / 1000000.), 0 for a group.
Mhashes(worksource) == IF is_group(worksource) THEN 0 ELSE MHashUnit

\* index += 1; if index >= len(children): index = 0; first = False
Advance(fr) ==
  [fr EXCEPT !.index = IF fr.index + 1 >= Len(fr.children) THEN 0 ELSE fr.index + 1,
             !.first = FALSE]

\* if force or worksource.mhashes_pending >= mhashes: found = True
F183(t) ==
  /\ pc[t] = "f_183"
  /\ IF frame[t].force \/ pending[frame[t].worksource] >= Mhashes(frame[t].worksource)
     THEN Goto(t, "f_185", [frame[t] EXCEPT !.found = TRUE])
     ELSE Goto(t, "f_179", Advance(frame[t]))
  /\ UNCHANGED <<treeVars, quotaVars, restVars, start_stop_lock, childlock>>

\* if mhashes: worksource.add_pending_mhashes(-mhashes)
F185(t) ==
  /\ pc[t] = "f_185"
  /\ pending' = add_pending_mhashes(State, frame[t].worksource,
                                    -Mhashes(frame[t].worksource)).pending
  /\ Goto(t, "f_186", frame[t])
  /\ UNCHANGED <<deferred, tick>>
  /\ UNCHANGED <<treeVars, restVars, start_stop_lock, childlock>>

\* result, gotjobs = worksource.start_fetchers(1, jobs), worksource a leaf
F186(t) ==
  /\ pc[t] = "f_186"
  /\ Goto(t, "f_187",
          [frame[t] EXCEPT
             !.result = LeafStartFetchers(State, frame[t].worksource, 1,
                                          frame[t].jobs, [res |-> answer]).result,
             !.gotjobs = LeafStartFetchers(State, frame[t].worksource, 1,
                                           frame[t].jobs, [res |-> answer]).gotjobs])
  /\ UNCHANGED <<treeVars, quotaVars, restVars, start_stop_lock, childlock>>

\* if result is not False: if mhashes: worksource.add_pending_mhashes(mhashes);
\* if result: return result, gotjobs; best = result
F187(t) ==
  /\ pc[t] = "f_187"
  /\ IF frame[t].result = RetFalse
     THEN /\ Goto(t, "f_179", Advance(frame[t]))
          /\ UNCHANGED pending
     ELSE /\ pending' = add_pending_mhashes(State, frame[t].worksource,
                                            Mhashes(frame[t].worksource)).pending
          /\ IF frame[t].result > 0
             THEN Goto(t, frame[t].return, frame[t])
             ELSE Goto(t, "f_179", Advance([frame[t] EXCEPT !.best = frame[t].result]))
  /\ UNCHANGED <<deferred, tick>>
  /\ UNCHANGED <<treeVars, restVars, start_stop_lock, childlock>>

\* The variables after a _distribute_mhashes call that returned the state r.
Distributed(r) ==
  /\ pending' = r.pending
  /\ deferred' = r.deferred
  /\ tick' = r.tick
  /\ last_time' = r.last_time
  /\ now' = r.now

\* if not found: self._distribute_mhashes(); iteration += 1;
\* if iteration > 150: break; if iteration > 100: force = True
F194(t) ==
  /\ pc[t] = "f_194"
  /\ IF frame[t].found
     THEN UNCHANGED <<pending, deferred, tick, last_time, now>>
     ELSE Distributed(_distribute_mhashes(Fresh, frame[t].self, [dt |-> MaxElapsed]))
  /\ IF frame[t].iteration + 1 > GiveUpIterations
     THEN Goto(t, frame[t].return,
               [frame[t] EXCEPT !.iteration = @ + 1,
                                !.result = frame[t].best, !.gotjobs = 0])
     ELSE Goto(t, "f_176",
               [frame[t] EXCEPT
                  !.iteration = @ + 1,
                  !.force = @ \/ frame[t].iteration + 1 > ForceIterations,
                  !.forced = @ \/ frame[t].iteration + 1 > ForceIterations])
  /\ UNCHANGED <<parent, children, started, last_index>>
  /\ UNCHANGED <<running, answer, enabled, priority, hashrate, granularity, fetch,
                 history, startCalls, stopCalls, failed, op, nops>>
  /\ UNCHANGED <<start_stop_lock, childlock>>

\* The root group is started and has the leaves of a non-empty set for children;
\* every leaf has quota for no dispatch or for one, and answers False or (1, 1).
DispatchInit ==
  /\ \E k \in 1..NumLeaves :
       /\ parent = [n \in Nodes |->
                      IF n \in Leaves /\ n <= NumGroups + k THEN Root ELSE None]
       /\ children = [g \in Groups |->
                        IF g = Root THEN LeafRun(NumGroups + 1, NumGroups + k)
                        ELSE <<>>]
       /\ started = [n \in Nodes |->
                       n = Root \/ (n \in Leaves /\ n <= NumGroups + k)]
  /\ last_index = [g \in Groups |-> 0]
  /\ last_time = [g \in Groups |-> 0]
  /\ now = 0
  /\ running = [l \in Leaves |-> <<0, 0>>]
  /\ answer \in [Leaves -> {NoAnswer, [result |-> 1, gotjobs |-> 1]}]
  /\ enabled = [n \in Nodes |-> TRUE]
  /\ priority = [n \in Nodes |-> 1]
  /\ hashrate = [n \in Nodes |-> 0]
  /\ granularity = [g \in Groups |-> DefaultGranularity]
  /\ pending \in [Nodes -> {0, MHashUnit}]
  /\ \A g \in Groups : pending[g] = 0
  /\ deferred = [n \in Nodes |-> 0]
  /\ tick = NoTick
  /\ fetch = NoFetch
  /\ history = <<>>
  /\ startCalls = NoCalls
  /\ stopCalls = NoCalls
  /\ failed = NoFailures
  /\ op = [kind |-> "init", g |-> None, w |-> None, raised |-> FALSE,
           wasStarted |-> FALSE, old_parent |-> None]
  /\ nops = 0
  /\ Sequential

DispatchNext ==
  \E t \in Threads :
    \/ CallFetch(t, 1, 1)
    \/ \E worksource \in Range(children[Root]) : CallRemove(t, Root, worksource)
    \/ Sf207(t) \/ Sf211(t) \/ Sf212(t) \/ Sf213(t)
    \/ F170(t) \/ F171(t) \/ F176(t) \/ F179(t) \/ F183(t) \/ F185(t)
    \/ F186(t) \/ F187(t) \/ F194(t)
    \/ Rm102(t) \/ Rm103(t) \/ Rm104(t) \/ Rm105(t) \/ Rm109(t) \/ Rm112(t)

SpecDispatch == DispatchInit /\ [][DispatchNext]_vars

----------------------------------------------------------------------------
(* Claims about concurrent dispatch (specification SpecDispatch)            *)

\* C18: while every search the threads have run is a non-forced one, the
\* eligibility check and the debit of a leaf act as one step: no leaf is
\* debited more often than its pending quota covers, so the pending quota
\* of no leaf is negative.
C18_AsStated ==
  (\A t \in Threads : ~frame[t].forced) => \A l \in Leaves : pending[l] >= 0

\* C20: whatever remove_work_source calls run next to start_fetchers, the
\* index a search uses is an index into the snapshot it took: no search
\* ends with the IndexError of an index past the end of its snapshot.
C20_AsStated ==
  \A t \in Threads :
    /\ ~frame[t].crashed
    /\ pc[t] \in {"f_176", "f_179", "f_183", "f_185", "f_186", "f_187", "f_194"}
         => frame[t].startindex < Len(frame[t].children)

====
